---- MODULE Spec2Model ----
(***************************************************************************)
(* A model of the CHIP-8 interpreter of src/main.c (union chip8_t and      *)
(* chip8_t_emulate_cycle) and src/main.cc (class Chip8 and executeCycle).  *)
(*                                                                         *)
(* The two files hold the same fetch-decode-execute code over two storage  *)
(* layouts.  In main.c the registers are members of an anonymous struct    *)
(* that shares its bytes with memory[] (a union), so V, DT, ST, SP, PC, I, *)
(* stack, display, draw_flag and keys ARE bytes 80..408 of memory.  In     *)
(* main.cc they are separate members of the class.  A machine state is a   *)
(* record whose field impl says which layout it has; every access of the   *)
(* code goes through the accessors below, which resolve it for the layout. *)
(* The main.c layout is the one of the usual ABIs (little-endian, natural   *)
(* alignment: one padding byte before PC).                                 *)
(***************************************************************************)
EXTENDS Integers, Sequences, FiniteSets, TLC

VARIABLES
    c8,      \* the machine (main.c: union chip8_t c8; main.cc: Chip8 c8)
    prev1,   \* history: the machine as the last cycle found it
    prev2,   \* history: the machine as the cycle before that found it
    fuel,    \* bound: the number of cycles the model still follows
    image,   \* the bytes of the ROM file named on the command line
    host,    \* main()'s position in an iteration of the emulation loop
    pixels,  \* main()'s pixel buffer, as the display bytes it was made from
    shown,   \* history: presentations since the last cycle returned
    dirtied  \* history: the draw flag as the last cycle left it

vars == <<c8, prev1, prev2, fuel, image, host, pixels, shown, dirtied>>

-----------------------------------------------------------------------------
(* Program constants *)

MEM_NB == 4096
FONTSET_NB == 80
PROG_START == 512
NREGS == 16
NSTACK == 16
NKEYS == 16
ROWS == 32
COLS == 64
DISPLAY_NB == (ROWS * COLS) \div 8

FONTSET ==
    << 240, 144, 144, 144, 240,
        32,  96,  32,  32, 112,
       240,  16, 240, 128, 240,
       240,  16, 240,  16, 240,
       144, 144, 240,  16,  16,
       240, 128, 240,  16, 240,
       240, 128, 240, 144, 240,
       240,  16,  32,  64,  64,
       240, 144, 240, 144, 240,
       240, 144, 240,  16, 240,
       240, 144, 240, 144, 144,
       224, 144, 224, 144, 224,
       240, 128, 128, 128, 240,
       224, 144, 144, 144, 224,
       240, 128, 240, 128, 240,
       240, 128, 240, 128, 128 >>

(* Byte offsets of the members of main.c's anonymous struct inside the union *)
V_OFF == FONTSET_NB
DT_OFF == V_OFF + NREGS
ST_OFF == DT_OFF + 1
SP_OFF == ST_OFF + 1
PC_OFF == SP_OFF + 2            \* uint16_t: aligned to 2, one padding byte
I_OFF == PC_OFF + 2
STACK_OFF == I_OFF + 2
DISPLAY_OFF == STACK_OFF + 2 * NSTACK
DRAW_OFF == DISPLAY_OFF + DISPLAY_NB
KEYS_OFF == DRAW_OFF + 1

-----------------------------------------------------------------------------
(* Fixed-width integer arithmetic *)

U8(v) == v % 256
U16(v) == v % 65536

Bit(v, k) == (v \div (2 ^ k)) % 2

RECURSIVE BitFold(_, _, _, _)
BitFold(f, a, b, k) ==
    IF k < 0 THEN 0
    ELSE LET ba == Bit(a, k)
             bb == Bit(b, k)
             r == CASE f = "and" -> ba * bb
                    [] f = "or" -> IF ba + bb > 0 THEN 1 ELSE 0
                    [] f = "xor" -> (ba + bb) % 2
         IN r * (2 ^ k) + BitFold(f, a, b, k - 1)

BitAnd(a, b) == BitFold("and", a, b, 15)
BitOr(a, b) == BitFold("or", a, b, 15)
BitXor(a, b) == BitFold("xor", a, b, 15)

-----------------------------------------------------------------------------
(* Accessors: one per member of the machine, resolved for the layout.      *)
(* InUnion(s) is main.c's layout.  A 16-bit member is two bytes, low first. *)

InUnion(s) == s.impl = "c"

Byte(s, a) == s.memory[a]
Word(s, a) == s.memory[a] + 256 * s.memory[a + 1]
setByte(s, a, v) == [s EXCEPT !.memory[a] = v]
setWord(s, a, v) == [s EXCEPT !.memory[a] = v % 256, !.memory[a + 1] = v \div 256]

V(s, i) == IF InUnion(s) THEN Byte(s, V_OFF + i) ELSE s.V[i]
DT(s) == IF InUnion(s) THEN Byte(s, DT_OFF) ELSE s.DT
ST(s) == IF InUnion(s) THEN Byte(s, ST_OFF) ELSE s.ST
SP(s) == IF InUnion(s) THEN Byte(s, SP_OFF) ELSE s.SP
PC(s) == IF InUnion(s) THEN Word(s, PC_OFF) ELSE s.PC
I(s) == IF InUnion(s) THEN Word(s, I_OFF) ELSE s.I
display(s, i) == IF InUnion(s) THEN Byte(s, DISPLAY_OFF + i) ELSE s.display[i]
draw(s) == IF InUnion(s) THEN Byte(s, DRAW_OFF) # 0 ELSE s.draw

setV(s, i, v) == IF InUnion(s) THEN setByte(s, V_OFF + i, v) ELSE [s EXCEPT !.V[i] = v]
setDT(s, v) == IF InUnion(s) THEN setByte(s, DT_OFF, v) ELSE [s EXCEPT !.DT = v]
setST(s, v) == IF InUnion(s) THEN setByte(s, ST_OFF, v) ELSE [s EXCEPT !.ST = v]
setSP(s, v) == IF InUnion(s) THEN setByte(s, SP_OFF, v) ELSE [s EXCEPT !.SP = v]
setPC(s, v) == IF InUnion(s) THEN setWord(s, PC_OFF, v) ELSE [s EXCEPT !.PC = v]
setI(s, v) == IF InUnion(s) THEN setWord(s, I_OFF, v) ELSE [s EXCEPT !.I = v]
setDisplay(s, i, v) ==
    IF InUnion(s) THEN setByte(s, DISPLAY_OFF + i, v) ELSE [s EXCEPT !.display[i] = v]
setDraw(s) == IF InUnion(s) THEN setByte(s, DRAW_OFF, 1) ELSE [s EXCEPT !.draw = TRUE]

-----------------------------------------------------------------------------
(* Accesses the code makes without a bounds check.  An index outside its   *)
(* array is undefined behaviour: the ghost field ub collects the kinds of  *)
(* such accesses the cycle made ("fetch", "stack", "keys", "memory",       *)
(* "memcpy"), a read past the machine yields the byte u.byte the           *)
(* environment chooses, and a write past the machine changes no modelled   *)
(* member.  Inside main.c's union an index past a member array is plain    *)
(* address arithmetic over the union's bytes, which is what a build does.  *)

\* TRUE of every machine.  The loops below test it on the result of one
\* iteration before starting the next: TLC then evaluates the iterations one
\* after the other instead of nesting them.
Evaluated(s) == s.impl \in {"c", "cc"}

touch(s, kind) == [s EXCEPT !.ub = @ \cup {kind}]
chk(s, inBounds, kind) == IF inBounds THEN s ELSE touch(s, kind)

memory(s, a, u) == IF a < MEM_NB THEN Byte(s, a) ELSE u.byte
setMemory(s, a, v) == IF a < MEM_NB THEN setByte(s, a, v) ELSE touch(s, "memory")

stack(s, i, u) ==
    IF InUnion(s) THEN Word(s, STACK_OFF + 2 * i)
    ELSE IF i < NSTACK THEN s.stack[i] ELSE u.byte * 257
setStack(s, i, v) ==
    LET t == chk(s, i < NSTACK, "stack")
    IN  IF InUnion(t) THEN setWord(t, STACK_OFF + 2 * i, v)
        ELSE IF i < NSTACK THEN [t EXCEPT !.stack[i] = v] ELSE t

keys(s, i, u) ==
    IF InUnion(s) THEN Byte(s, KEYS_OFF + i) # 0
    ELSE IF i < NKEYS THEN s.keys[i] ELSE u.byte # 0
setKey(s, i, down) ==
    IF InUnion(s) THEN setByte(s, KEYS_OFF + i, IF down THEN 1 ELSE 0)
    ELSE [s EXCEPT !.keys[i] = down]

-----------------------------------------------------------------------------
(* The instructions, one operator per branch of the cycle's dispatch *)

incPC(s, k) == setPC(s, U16(PC(s) + k))

\* memset(display, 0, 32 * 64 / 8)
clearDisplay(s) ==
    IF InUnion(s) THEN
        [s EXCEPT !.memory = [a \in 0..(MEM_NB - 1) |->
            IF a >= DISPLAY_OFF /\ a < DISPLAY_OFF + DISPLAY_NB THEN 0 ELSE @[a]]]
    ELSE [s EXCEPT !.display = [i \in 0..(DISPLAY_NB - 1) |-> 0]]

\* 00E0 - CLS (taken for every op 0 word whose low nibble is 0)
CLS(s) == incPC(setDraw(clearDisplay(s)), 2)

\* RET that resumes at the call itself instead of after it
RET_NoSkip(s, u) ==
    LET s1 == setSP(s, U8(SP(s) + 255))
        s2 == chk(s1, SP(s1) < NSTACK, "stack")
    IN  setPC(s2, stack(s2, SP(s2), u))

\* 00EE - RET (taken for every op 0 word whose low nibble is E)
RET(s, u) ==
    LET s1 == setSP(s, U8(SP(s) + 255))
        s2 == chk(s1, SP(s1) < NSTACK, "stack")
        s3 == setPC(s2, stack(s2, SP(s2), u))
    IN  incPC(s3, 2)

\* 1nnn - JP addr
JP(s, nnn) == setPC(s, nnn)

\* 2nnn - CALL addr
CALL(s, nnn) ==
    LET s1 == setStack(s, SP(s), PC(s))
        s2 == setSP(s1, U8(SP(s1) + 1))
    IN  setPC(s2, nnn)

\* 3xkk - SE Vx, byte
SE(s, x, kk) == incPC(s, IF V(s, x) = kk THEN 4 ELSE 2)

\* A 4xkk that skips on equality, as 3xkk does
SNE_Equal(s, x, kk) == incPC(s, IF V(s, x) = kk THEN 4 ELSE 2)

\* 4xkk - SNE Vx, byte
SNE(s, x, kk) == incPC(s, IF V(s, x) # kk THEN 4 ELSE 2)

\* 5xy0 - SE Vx, Vy (the low nibble is not examined)
SEV(s, x, y) == incPC(s, IF V(s, x) = V(s, y) THEN 4 ELSE 2)

\* A load that also skips the next instruction
LD_Skips(s, x, kk) == incPC(setV(s, x, kk), 4)

\* An add that keeps a carry in VF
ADD_Carry(s, x, kk) ==
    LET s1 == setV(s, 15, IF V(s, x) + kk > 255 THEN 1 ELSE 0)
    IN  incPC(setV(s1, x, U8(V(s, x) + kk)), 2)

\* 6xkk - LD Vx, byte
LD(s, x, kk) == incPC(setV(s, x, kk), 2)

\* 7xkk - ADD Vx, byte
ADD(s, x, kk) == incPC(setV(s, x, U8(V(s, x) + kk)), 2)

\* 8xy0 - LD Vx, Vy
LDV(s, x, y) == incPC(setV(s, x, V(s, y)), 2)

\* 8xy1 - OR Vx, Vy
OR(s, x, y) == incPC(setV(s, x, BitOr(V(s, x), V(s, y))), 2)

\* 8xy2 - AND Vx, Vy
AND(s, x, y) == incPC(setV(s, x, BitAnd(V(s, x), V(s, y))), 2)

\* 8xy3 - XOR Vx, Vy
XOR(s, x, y) == incPC(setV(s, x, BitXor(V(s, x), V(s, y))), 2)

\* 8xy4 - ADD Vx, Vy: the flag is stored first, then Vx and Vy are read again
ADDV(s, x, y) ==
    LET s1 == setV(s, 15, IF V(s, x) + V(s, y) > 255 THEN 1 ELSE 0)
        s2 == setV(s1, x, U8(V(s1, x) + V(s1, y)))
    IN  incPC(s2, 2)

\* 8xy5 - SUB Vx, Vy
SUB(s, x, y) ==
    LET s1 == setV(s, 15, IF V(s, x) > V(s, y) THEN 1 ELSE 0)
        s2 == setV(s1, x, U8(V(s1, x) - V(s1, y) + 256))
    IN  incPC(s2, 2)

\* 8xy6 - SHR Vx
SHR(s, x) ==
    LET s1 == setV(s, 15, V(s, x) % 2)
        s2 == setV(s1, x, V(s1, x) \div 2)
    IN  incPC(s2, 2)

\* 8xy7 - SUBN Vx, Vy
SUBN(s, x, y) ==
    LET s1 == setV(s, 15, IF V(s, y) > V(s, x) THEN 1 ELSE 0)
        s2 == setV(s1, x, U8(V(s1, y) - V(s1, x) + 256))
    IN  incPC(s2, 2)

\* 8xyE - SHL Vx
SHL(s, x) ==
    LET s1 == setV(s, 15, V(s, x) \div 128)
        s2 == setV(s1, x, U8(V(s1, x) * 2))
    IN  incPC(s2, 2)

\* 9xy0 - SNE Vx, Vy (the low nibble is not examined)
SNEV(s, x, y) == incPC(s, IF V(s, x) # V(s, y) THEN 4 ELSE 2)

\* Annn - LD I, addr
LDI(s, nnn) == incPC(setI(s, nnn), 2)

\* Bnnn - JP V0, addr
JPV0(s, nnn) == setPC(s, nnn + V(s, 0))

\* Cxkk - RND Vx, byte: rnd is rand() % 256
RND(s, x, kk, rnd) == incPC(setV(s, x, BitAnd(rnd, kk)), 2)

\* A pixel body that reports a collision when the pixel is lit, not erased
drawPixel_HitOnSet(s, nthByte, pxRow, startCol, offsetCol) ==
    LET byteShamt == 7 - offsetCol
        bytePxVal == Bit(nthByte, byteShamt)
        pxCol == (startCol + offsetCol) % COLS
        bitIndex == (pxRow * COLS) + pxCol
        byteIndex == bitIndex \div 8
        dispShamt == 7 - (bitIndex % 8)
        originalPxVal == Bit(display(s, byteIndex), dispShamt)
        newPxVal == (originalPxVal + bytePxVal) % 2
        s1 == setDisplay(s, byteIndex,
                         BitXor(display(s, byteIndex), bytePxVal * (2 ^ dispShamt)))
        hit == IF originalPxVal = 0 /\ newPxVal # 0 THEN 1 ELSE 0
    IN  setV(s1, 15, BitOr(V(s1, 15), hit))

\* A pixel body that overwrites VF with the last pixel's collision
drawPixel_Overwrite(s, nthByte, pxRow, startCol, offsetCol) ==
    LET byteShamt == 7 - offsetCol
        bytePxVal == Bit(nthByte, byteShamt)
        pxCol == (startCol + offsetCol) % COLS
        bitIndex == (pxRow * COLS) + pxCol
        byteIndex == bitIndex \div 8
        dispShamt == 7 - (bitIndex % 8)
        originalPxVal == Bit(display(s, byteIndex), dispShamt)
        newPxVal == (originalPxVal + bytePxVal) % 2
        s1 == setDisplay(s, byteIndex,
                         BitXor(display(s, byteIndex), bytePxVal * (2 ^ dispShamt)))
        hit == IF originalPxVal # 0 /\ newPxVal = 0 THEN 1 ELSE 0
    IN  setV(s1, 15, hit)

\* Dxyn, the body of the inner loop: one pixel of one sprite row
drawPixel(s, nthByte, pxRow, startCol, offsetCol) ==
    LET byteShamt == 7 - offsetCol
        bytePxVal == Bit(nthByte, byteShamt)
        pxCol == (startCol + offsetCol) % COLS
        bitIndex == (pxRow * COLS) + pxCol
        byteIndex == bitIndex \div 8
        dispShamt == 7 - (bitIndex % 8)
        originalPxVal == Bit(display(s, byteIndex), dispShamt)
        newPxVal == (originalPxVal + bytePxVal) % 2
        s1 == setDisplay(s, byteIndex,
                         BitXor(display(s, byteIndex), bytePxVal * (2 ^ dispShamt)))
        hit == IF originalPxVal # 0 /\ newPxVal = 0 THEN 1 ELSE 0
    IN  setV(s1, 15, BitOr(V(s1, 15), hit))

RECURSIVE drawRow(_, _, _, _, _)
drawRow(s, nthByte, pxRow, startCol, offsetCol) ==
    IF offsetCol >= 8 THEN s
    ELSE LET t == drawPixel(s, nthByte, pxRow, startCol, offsetCol)
         IN  IF Evaluated(t)
             THEN drawRow(t, nthByte, pxRow, startCol, offsetCol + 1)
             ELSE t

\* Dxyn, the outer loop: the sprite byte is read when its row is reached
RECURSIVE drawRows(_, _, _, _, _, _)
drawRows(s, n, startCol, startRow, offsetRow, u) ==
    IF offsetRow >= n THEN s
    ELSE LET a == I(s) + offsetRow
             s1 == chk(s, a < MEM_NB, "memory")
             nthByte == memory(s1, a, u)
             pxRow == (startRow + offsetRow) % ROWS
             t == drawRow(s1, nthByte, pxRow, startCol, 0)
         IN  IF Evaluated(t)
             THEN drawRows(t, n, startCol, startRow, offsetRow + 1, u)
             ELSE t

\* Dxyn - DRW Vx, Vy, nibble: VF is zeroed before Vx and Vy are read
DRW(s, x, y, n, u) ==
    LET s1 == setV(s, 15, 0)
        startCol == V(s1, x)
        startRow == V(s1, y)
        s2 == drawRows(s1, n, startCol, startRow, 0, u)
    IN  incPC(setDraw(s2), 2)

\* Ex9E - SKP Vx
SKP(s, x, u) ==
    LET s1 == chk(s, V(s, x) < NKEYS, "keys")
    IN  incPC(s1, IF keys(s1, V(s1, x), u) THEN 4 ELSE 2)

\* ExA1 - SKNP Vx
SKNP(s, x, u) ==
    LET s1 == chk(s, V(s, x) < NKEYS, "keys")
    IN  incPC(s1, IF ~keys(s1, V(s1, x), u) THEN 4 ELSE 2)

\* Fx07 - LD Vx, DT
LDVDT(s, x) == incPC(setV(s, x, DT(s)), 2)

\* A scan that stores the index in Vx whether or not a key was found
RECURSIVE scanKeys_Stores(_, _, _, _, _)
scanKeys_Stores(s, x, keyPressed, i, u) ==
    IF i >= 16 THEN <<s, keyPressed>>
    ELSE LET kp == keyPressed \/ keys(s, i, u)
             t == setV(s, x, i)
         IN  IF Evaluated(t) THEN scanKeys_Stores(t, x, kp, i + 1, u) ELSE <<t, kp>>

\* A scan that stops before the last key
RECURSIVE scanKeys_SkipsLast(_, _, _, _, _)
scanKeys_SkipsLast(s, x, keyPressed, i, u) ==
    IF i >= 15 THEN <<s, keyPressed>>
    ELSE LET kp == keyPressed \/ keys(s, i, u)
             t == setV(s, x, IF kp THEN i ELSE V(s, x))
         IN  IF Evaluated(t) THEN scanKeys_SkipsLast(t, x, kp, i + 1, u) ELSE <<t, kp>>

\* Fx0A, the scan of the 16 keys: the result is <<machine, keyPressed>>
RECURSIVE scanKeys(_, _, _, _, _)
scanKeys(s, x, keyPressed, i, u) ==
    IF i >= 16 THEN <<s, keyPressed>>
    ELSE LET kp == keyPressed \/ keys(s, i, u)
             t == setV(s, x, IF kp THEN i ELSE V(s, x))
         IN  IF Evaluated(t) THEN scanKeys(t, x, kp, i + 1, u) ELSE <<t, kp>>

\* Fx15 - LD DT, Vx
LDDT(s, x) == incPC(setDT(s, V(s, x)), 2)

\* Fx18 - LD ST, Vx
LDST(s, x) == incPC(setST(s, V(s, x)), 2)

\* Fx1E - ADD I, Vx
ADDI(s, x) ==
    LET s1 == setV(s, 15, IF I(s) + V(s, x) > 4095 THEN 1 ELSE 0)
        s2 == setI(s1, U16(I(s1) + V(s1, x)))
    IN  incPC(s2, 2)

\* Fx29 - LD F, Vx
LDF(s, x) == incPC(setI(s, 5 * V(s, x)), 2)

\* Fx33 - LD B, Vx: three stores, I and Vx read again for each
LDB(s, x) ==
    LET s1 == setMemory(s, I(s), V(s, x) \div 100)
        s2 == setMemory(s1, I(s1) + 1, (V(s1, x) \div 10) % 10)
        s3 == setMemory(s2, I(s2) + 2, V(s2, x) % 10)
    IN  incPC(s3, 2)

(* memcpy over the bytes of main.c's union.  When the two ranges overlap    *)
(* the call is undefined: the environment's u.dir chooses among the        *)
(* results a build produces (all bytes loaded before any is stored, or a   *)
(* byte-by-byte copy going up, or one going down).                         *)
RECURSIVE copyBytes(_, _, _, _, _, _, _)
copyBytes(s, dst, src, len, i, down, u) ==
    IF i >= len THEN s
    ELSE LET k == IF down THEN len - 1 - i ELSE i
             s1 == chk(s, src + k < MEM_NB, "memory")
             t == setMemory(s1, dst + k, memory(s1, src + k, u))
         IN  IF Evaluated(t) THEN copyBytes(t, dst, src, len, i + 1, down, u) ELSE t

RECURSIVE storeBytes(_, _, _, _, _)
storeBytes(s, dst, vals, len, i) ==
    IF i >= len THEN s
    ELSE LET t == setMemory(s, dst + i, vals[i])
         IN  IF Evaluated(t) THEN storeBytes(t, dst, vals, len, i + 1) ELSE t

unionMemcpy(s, dst, src, len, u) ==
    LET overlap == dst < src + len /\ src < dst + len
        vals == [i \in 0..(len - 1) |-> memory(s, src + i, u)]
        s1 == chk(s, src + len - 1 < MEM_NB, "memory")
    IN  IF ~overlap \/ u.dir = "move" THEN
            storeBytes(chk(s1, ~overlap, "memcpy"), dst, vals, len, 0)
        ELSE copyBytes(touch(s, "memcpy"), dst, src, len, 0, u.dir = "down", u)

\* main.cc: memcpy(memory + I, V, x + 1) between two distinct members
RECURSIVE storeRegs(_, _, _)
storeRegs(s, x, i) ==
    IF i > x THEN s
    ELSE LET t == setMemory(s, I(s) + i, V(s, i))
         IN  IF Evaluated(t) THEN storeRegs(t, x, i + 1) ELSE t

\* main.cc: memcpy(V, memory + I, x + 1) between two distinct members
RECURSIVE loadRegs(_, _, _, _)
loadRegs(s, x, i, u) ==
    IF i > x THEN s
    ELSE LET s1 == chk(s, I(s) + i < MEM_NB, "memory")
             t == setV(s1, i, memory(s1, I(s1) + i, u))
         IN  IF Evaluated(t) THEN loadRegs(t, x, i + 1, u) ELSE t

\* Fx55 - LD [I], Vx
LDM(s, x, u) ==
    LET s1 == IF InUnion(s) THEN unionMemcpy(s, I(s), V_OFF, x + 1, u)
              ELSE storeRegs(s, x, 0)
        s2 == setI(s1, U16(I(s1) + x + 1))
    IN  incPC(s2, 2)

\* Fx65 - LD Vx, [I]
LDVM(s, x, u) ==
    LET s1 == IF InUnion(s) THEN unionMemcpy(s, V_OFF, I(s), x + 1, u)
              ELSE loadRegs(s, x, 0, u)
        s2 == setI(s1, U16(I(s1) + x + 1))
    IN  incPC(s2, 2)

-----------------------------------------------------------------------------
(* The cycle: fetch, decode, dispatch, timers *)

fetch(s, u) == memory(s, PC(s), u) * 256 + memory(s, PC(s) + 1, u)

opOf(instruction) == instruction \div 4096
xOf(instruction) == (instruction \div 256) % 16
yOf(instruction) == (instruction \div 16) % 16
nnnOf(instruction) == instruction % 4096
kkOf(instruction) == instruction % 256
nOf(instruction) == instruction % 16

\* update timers
updateTimers(s) ==
    LET s1 == IF DT(s) > 0 THEN setDT(s, DT(s) - 1) ELSE s
    IN  IF ST(s1) > 0 THEN setST(s1, ST(s1) - 1) ELSE s1

\* The branches other than Fx0A; a word no branch takes leaves s as it is
dispatch(s, instruction, rnd, u) ==
    LET op == opOf(instruction)
        x == xOf(instruction)
        y == yOf(instruction)
        nnn == nnnOf(instruction)
        kk == kkOf(instruction)
        n == nOf(instruction)
    IN  CASE op = 0 /\ n = 0 -> CLS(s)
          [] op = 0 /\ n = 14 -> RET(s, u)
          [] op = 1 -> JP(s, nnn)
          [] op = 2 -> CALL(s, nnn)
          [] op = 3 -> SE(s, x, kk)
          [] op = 4 -> SNE(s, x, kk)
          [] op = 5 -> SEV(s, x, y)
          [] op = 6 -> LD(s, x, kk)
          [] op = 7 -> ADD(s, x, kk)
          [] op = 8 /\ n = 0 -> LDV(s, x, y)
          [] op = 8 /\ n = 1 -> OR(s, x, y)
          [] op = 8 /\ n = 2 -> AND(s, x, y)
          [] op = 8 /\ n = 3 -> XOR(s, x, y)
          [] op = 8 /\ n = 4 -> ADDV(s, x, y)
          [] op = 8 /\ n = 5 -> SUB(s, x, y)
          [] op = 8 /\ n = 6 -> SHR(s, x)
          [] op = 8 /\ n = 7 -> SUBN(s, x, y)
          [] op = 8 /\ n = 14 -> SHL(s, x)
          [] op = 9 -> SNEV(s, x, y)
          [] op = 10 -> LDI(s, nnn)
          [] op = 11 -> JPV0(s, nnn)
          [] op = 12 -> RND(s, x, kk, rnd)
          [] op = 13 -> DRW(s, x, y, n, u)
          [] op = 14 /\ kk = 158 -> SKP(s, x, u)
          [] op = 14 /\ kk = 161 -> SKNP(s, x, u)
          [] op = 15 /\ kk = 7 -> LDVDT(s, x)
          [] op = 15 /\ kk = 21 -> LDDT(s, x)
          [] op = 15 /\ kk = 24 -> LDST(s, x)
          [] op = 15 /\ kk = 30 -> ADDI(s, x)
          [] op = 15 /\ kk = 41 -> LDF(s, x)
          [] op = 15 /\ kk = 51 -> LDB(s, x)
          [] op = 15 /\ kk = 85 -> LDM(s, x, u)
          [] op = 15 /\ kk = 101 -> LDVM(s, x, u)
          [] OTHER -> s

\* Fx0A - LD Vx, K: with no key found the cycle returns before the timers
isLDK(instruction) == opOf(instruction) = 15 /\ kkOf(instruction) = 10

executeCycle(s0, rnd, u) ==
    LET s == chk([s0 EXCEPT !.ub = {}], PC(s0) + 1 < MEM_NB, "fetch")
        instruction == fetch(s, u)
        scan == scanKeys(s, xOf(instruction), FALSE, 0, u)
    IN  IF isLDK(instruction) THEN
            IF ~scan[2] THEN scan[1] ELSE updateTimers(incPC(scan[1], 2))
        ELSE updateTimers(dispatch(s, instruction, rnd, u))

-----------------------------------------------------------------------------
(* Construction and program load *)

\* fread(memory + PROG_START, 1, count, rom): bytes past memory[] are
\* out of bounds
copyROM(s, rom, count) ==
    LET s1 == chk(s, PROG_START + count <= MEM_NB, "memory")
    IN  [s1 EXCEPT !.memory = [a \in 0..(MEM_NB - 1) |->
            IF a >= PROG_START /\ a < PROG_START + count
            THEN rom[a - PROG_START + 1] ELSE @[a]]]

Min(a, b) == IF a < b THEN a ELSE b

\* main.c, main(): memset, fontset, PC, then fread of at most
\* MEM_NB - PROG_START bytes
mainInit(rom) ==
    LET zero == [impl |-> "c", ub |-> {},
                 memory |-> [a \in 0..(MEM_NB - 1) |->
                                IF a < FONTSET_NB THEN FONTSET[a + 1] ELSE 0]]
        s1 == setPC(zero, PROG_START)
    IN  copyROM(s1, rom, Min(Len(rom), MEM_NB - PROG_START))

\* main.cc, Chip8::reset(): every member but draw is assigned
reset(s) ==
    [impl |-> "cc", ub |-> {},
     memory |-> [a \in 0..(MEM_NB - 1) |-> IF a < 80 THEN FONTSET[a + 1] ELSE 0],
     V |-> [i \in 0..(NREGS - 1) |-> 0],
     DT |-> 0, ST |-> 0, SP |-> 0,
     keys |-> [i \in 0..(NKEYS - 1) |-> FALSE],
     PC |-> PROG_START,
     I |-> 0,
     stack |-> [i \in 0..(NSTACK - 1) |-> 0],
     display |-> [i \in 0..(DISPLAY_NB - 1) |-> 0],
     draw |-> s.draw]

\* main.cc: fread past memory[4095] runs into the members declared after
\* memory in class Chip8, in their order: PC (2 bytes), display, draw
spill(s, rom) ==
    LET over == Len(rom) - (MEM_NB - PROG_START)
        byteAt(k) == rom[MEM_NB - PROG_START + 1 + k]
    IN  IF over <= 0 THEN s
        ELSE [touch(s, "memory") EXCEPT
                !.PC = (IF over > 0 THEN byteAt(0) ELSE @ % 256)
                       + 256 * (IF over > 1 THEN byteAt(1) ELSE @ \div 256),
                !.display = [i \in 0..(DISPLAY_NB - 1) |->
                                IF over > 2 + i THEN byteAt(2 + i) ELSE @[i]],
                !.draw = IF over > 2 + DISPLAY_NB
                         THEN byteAt(2 + DISPLAY_NB) # 0 ELSE @]

\* main.cc, Chip8::loadROMFromPath(): reset, then fread of the whole file
loadROMFromPath(s, rom) ==
    spill(copyROM(reset(s), rom, Min(Len(rom), MEM_NB - PROG_START)), rom)

\* main.cc, main(): "Chip8 c8;" leaves every member indeterminate; of these
\* only draw survives the load, with the value dr the environment chooses
Construct(dr) == [impl |-> "cc", draw |-> dr]

Boot(impl, rom, dr) ==
    IF impl = "c" THEN mainInit(rom) ELSE loadROMFromPath(Construct(dr), rom)

-----------------------------------------------------------------------------
(* Inputs of a cycle that the program does not decide *)

\* rand() % 256
RandBytes == {0, 165, 255}

\* What an out-of-bounds read yields, and how an overlapping memcpy copies
UBOutcomes == [byte : {0, 238}, dir : {"move", "up", "down"}]

NoUB == [byte |-> 0, dir |-> "move"]

\* The inputs matter only to a cycle that consults them
RandInputs(s) ==
    IF PC(s) + 1 < MEM_NB /\ opOf(fetch(s, NoUB)) # 12 THEN {0} ELSE RandBytes

UBInputs(s) == IF executeCycle(s, 0, NoUB).ub = {} THEN {NoUB} ELSE UBOutcomes

NoState == [impl |-> "none"]

\* One call of chip8_t_emulate_cycle / Chip8::executeCycle
emulate ==
    /\ fuel > 0
    /\ \E rnd \in RandInputs(c8), u \in UBInputs(c8) :
            c8' = executeCycle(c8, rnd, u)
    /\ prev1' = c8
    /\ prev2' = prev1
    /\ fuel' = fuel - 1
    /\ shown' = 0
    /\ dirtied' = draw(c8')
    /\ UNCHANGED <<image, pixels>>

\* A cycle, wherever the caller is
Step == emulate /\ UNCHANGED host

\* The keys the model presses and releases
TestKeys == {3, 15}

\* The host loop's SDL_KEYDOWN branch for a key of the keymap
KeyDown ==
    /\ \E i \in TestKeys : ~keys(c8, i, NoUB) /\ c8' = setKey(c8, i, TRUE)
    /\ UNCHANGED <<prev1, prev2, fuel, image, host, pixels, shown, dirtied>>

\* The host loop's SDL_KEYUP branch for a key of the keymap
KeyUp ==
    /\ \E i \in TestKeys : keys(c8, i, NoUB) /\ c8' = setKey(c8, i, FALSE)
    /\ UNCHANGED <<prev1, prev2, fuel, image, host, pixels, shown, dirtied>>

\* main.cc's host loop, SDL_KEYDOWN of F1: the ROM file is loaded again
Reload ==
    /\ ~InUnion(c8)
    /\ c8' = loadROMFromPath(c8, image)
    /\ prev1' = NoState
    /\ prev2' = NoState
    /\ UNCHANGED <<fuel, image, host, pixels, shown, dirtied>>

clearDraw(s) == IF InUnion(s) THEN setByte(s, DRAW_OFF, 0) ELSE [s EXCEPT !.draw = FALSE]

\* At most this many presentations between two cycles are told apart
MaxShown == 2

\* The body of the host loop's "if (draw flag)": the flag is cleared, then
\* the pixel buffer is made from the display and rendered
present ==
    /\ c8' = clearDraw(c8)
    /\ pixels' = [i \in 0..(DISPLAY_NB - 1) |-> display(clearDraw(c8), i)]
    /\ shown' = IF shown < MaxShown THEN shown + 1 ELSE shown
    /\ UNCHANGED <<prev1, prev2, fuel, image, dirtied>>

\* The host loop's presentation, wherever the loop is
Present == draw(c8) /\ present /\ UNCHANGED host

\* The host loop, in the order of its statements: the cycle ...
HostCycle == host = "cycle" /\ emulate /\ host' = "events"

\* ... then the events SDL_PollEvent hands out ...
HostKeyDown == host = "events" /\ KeyDown

HostKeyUp == host = "events" /\ KeyUp

HostReload == host = "events" /\ Reload

\* ... until it has none left ...
HostPolled ==
    /\ host = "events"
    /\ host' = "draw"
    /\ UNCHANGED <<c8, prev1, prev2, fuel, image, pixels, shown, dirtied>>

\* ... then the presentation, if the draw flag is set
HostDraw ==
    /\ host = "draw"
    /\ host' = "cycle"
    /\ IF draw(c8) THEN present
       ELSE UNCHANGED <<c8, prev1, prev2, fuel, image, pixels, shown, dirtied>>

-----------------------------------------------------------------------------
(* Programs *)

RECURSIVE Prog(_)
Prog(words) ==
    IF words = <<>> THEN <<>>
    ELSE <<Head(words) \div 256, Head(words) % 256>> \o Prog(Tail(words))

\* words followed by a jump to itself
Halting(words) == words \o <<4096 + PROG_START + 2 * Len(words)>>

Impls == {"c", "cc"}

\* main()'s pixel buffer before the first presentation: not initialised,
\* and not read before it is written
NoPixels == <<>>

InitWith(roms, cycles) ==
    /\ image \in roms
    /\ \E impl \in Impls, dr \in BOOLEAN : c8 = Boot(impl, image, dr)
    /\ prev1 = NoState
    /\ prev2 = NoState
    /\ fuel = cycles
    /\ host = "cycle"
    /\ pixels = NoPixels
    /\ shown = 0
    /\ dirtied = FALSE

-----------------------------------------------------------------------------
(* What the last cycle, and the one before it, executed *)

Stepped == prev1.impl # "none"
SteppedTwice == prev2.impl # "none"

\* The instruction word a cycle starting in s fetches (PC within memory)
Fetched(s) == PC(s) + 1 < MEM_NB
instr(s) == fetch(s, NoUB)

isCALL(w) == opOf(w) = 2
isRET(w) == opOf(w) = 0 /\ nOf(w) = 14
isDRW(w) == opOf(w) = 13

-----------------------------------------------------------------------------
(* Calls and returns: SpecFlow *)

MaxDepth == 16

\* d nested calls, then a call of a subroutine that returns at once:
\*   0x200 + 2i  (i < d):  CALL 0x200 + 2(i + 1)
\*   0x200 + 2d:           CALL T
\*   0x200 + 2d + 2:       JP to itself
\*   T = 0x200 + 2d + 4:   00EE
ChainROM(d) ==
    Prog([i \in 1..(d + 3) |->
            IF i <= d THEN 8192 + PROG_START + 2 * i
            ELSE IF i = d + 1 THEN 8192 + PROG_START + 2 * (d + 2)
            ELSE IF i = d + 2 THEN 4096 + PROG_START + 2 * (d + 1)
            ELSE 238])

\* A program that returns without having been called
ReturnROM == Prog(<<238>>)

FlowROMs == {ChainROM(d) : d \in 0..MaxDepth} \cup {ReturnROM}

InitFlow == InitWith(FlowROMs, MaxDepth + 4)

SpecFlow == InitFlow /\ [][Step]_vars

\* C1: a 2nnn executed with SP < 16 at address a, followed by 00EE as the very
\* next executed instruction, leaves PC = a + 2 and SP as it was before the
\* call.
C1_CallThenReturn ==
    (/\ SteppedTwice
     /\ Fetched(prev2) /\ isCALL(instr(prev2)) /\ SP(prev2) < 16
     /\ Fetched(prev1) /\ instr(prev1) = 238)
    => (PC(c8) = PC(prev2) + 2 /\ SP(c8) = SP(prev2))

\* C1's case: a nested call (SP = 15 before it) has returned
C1_Witness ==
    /\ SteppedTwice
    /\ Fetched(prev2) /\ isCALL(instr(prev2)) /\ SP(prev2) = 15
    /\ Fetched(prev1) /\ instr(prev1) = 238
    /\ PC(c8) = PC(prev2) + 2
    /\ SP(c8) = 15

\* C10: SP stays within 0..16, and every stack slot that 00EE reads or 2nnn
\* writes has an index within 0..15.
C10_StackInRange ==
    /\ SP(c8) \in 0..16
    /\ (Stepped /\ Fetched(prev1) /\ isRET(instr(prev1)))
            => U8(SP(prev1) + 255) \in 0..15
    /\ (Stepped /\ Fetched(prev1) /\ isCALL(instr(prev1)))
            => SP(prev1) \in 0..15

-----------------------------------------------------------------------------
(* Waiting for a key, and the timers: SpecKeys *)

KeyCycles == 6

\* V0 = d, DT = V0, ST = V0, Vx = 9, then wait for a key into Vx
KeyROM(x, d) ==
    Prog(Halting(<<24576 + d, 61461, 61464, 24576 + 256 * x + 9,
                   61450 + 256 * x>>))

\* The timers set to 5, then a word (8008) no branch of the dispatch takes
UndefinedROM == Prog(<<24576 + 5, 61461, 61464, 32776>>)

KeyROMs == {KeyROM(x, d) : x \in {0, 7, 15}, d \in {0, 5}} \cup {UndefinedROM}

InitKeys == InitWith(KeyROMs, KeyCycles)

NextKeys == Step \/ KeyDown \/ KeyUp

SpecKeys == InitKeys /\ [][NextKeys]_vars

NoKeyPressed(s) == \A i \in 0..(NKEYS - 1) : ~keys(s, i, NoUB)

HighestKey(s) ==
    CHOOSE i \in 0..(NKEYS - 1) :
        keys(s, i, NoUB) /\ \A j \in (i + 1)..(NKEYS - 1) : ~keys(s, j, NoUB)

Waited(s) == Fetched(s) /\ isLDK(instr(s)) /\ NoKeyPressed(s)

\* C2: a cycle at Fx0A that finds no key pressed leaves PC and every V
\* register as they were, however often it is repeated; a cycle at Fx0A that
\* finds a key pressed moves PC by exactly 2.
C2_WaitForKey ==
    (Stepped /\ Fetched(prev1) /\ isLDK(instr(prev1)))
    => IF NoKeyPressed(prev1)
       THEN /\ PC(c8) = PC(prev1)
            /\ \A i \in 0..(NREGS - 1) : V(c8, i) = V(prev1, i)
       ELSE PC(c8) = PC(prev1) + 2

\* C2's case: two cycles in a row have waited at the same Fx0A, Vx is not 0
C2_Witness ==
    /\ SteppedTwice
    /\ Waited(prev2) /\ Waited(prev1)
    /\ PC(c8) = PC(prev2)
    /\ V(c8, xOf(instr(prev1))) = 9

\* C3: a cycle at Fx0A that finds keys pressed leaves in Vx the highest index
\* among the pressed keys.
C3_HighestKey ==
    (Stepped /\ Fetched(prev1) /\ isLDK(instr(prev1)) /\ ~NoKeyPressed(prev1))
    => V(c8, xOf(instr(prev1))) = HighestKey(prev1)

Dec(t) == IF t > 0 THEN t - 1 ELSE 0

\* C9: every cycle, whatever word it fetched, ends with the timer update: DT
\* (as the instruction left it) is decremented if nonzero, and so is ST.
C9_TimersEveryCycle ==
    (Stepped /\ Fetched(prev1))
    => LET w == instr(prev1)
           setsDT == opOf(w) = 15 /\ kkOf(w) = 21
           setsST == opOf(w) = 15 /\ kkOf(w) = 24
       IN  /\ DT(c8) = Dec(IF setsDT THEN V(prev1, xOf(w)) ELSE DT(prev1))
           /\ ST(c8) = Dec(IF setsST THEN V(prev1, xOf(w)) ELSE ST(prev1))

-----------------------------------------------------------------------------
(* Addition with carry: SpecALU *)

ALUCycles == 4

ALURegs == {0, 14, 15}
ALUBytes == {0, 100, 200, 255}

\* Vx = v, Vy = w, then ADD Vx, Vy
AddROM(x, y, v, w) ==
    Prog(Halting(<<24576 + 256 * x + v, 24576 + 256 * y + w,
                   32772 + 256 * x + 16 * y>>))

ALUROMs == {AddROM(x, y, v, w) : x \in ALURegs, y \in ALURegs,
                                 v \in ALUBytes, w \in ALUBytes}

\* Vx = v, Vy = w, then SUB Vx, Vy (n = 5) or SUBN Vx, Vy (n = 7)
SubRegs == {0, 14}
SubROM(x, y, v, w, n) ==
    Prog(Halting(<<24576 + 256 * x + v, 24576 + 256 * y + w,
                   32768 + 256 * x + 16 * y + n>>))

SubROMs == {SubROM(x, y, v, w, n) : x \in SubRegs, y \in ALURegs,
                                    v \in ALUBytes, w \in {3, 100, 255},
                                    n \in {5, 7}}

InitALU == InitWith(ALUROMs \cup SubROMs, ALUCycles)

SpecALU == InitALU /\ [][Step]_vars

isADDV(w) == opOf(w) = 8 /\ nOf(w) = 4

\* C4: after 8xy4, VF is 1 exactly when the old Vx plus the old Vy exceeds
\* 255 (and 0 otherwise), for every x and y, F included.
C4_CarryFlag ==
    (Stepped /\ Fetched(prev1) /\ isADDV(instr(prev1)))
    => LET w == instr(prev1)
       IN  V(c8, 15) = IF V(prev1, xOf(w)) + V(prev1, yOf(w)) > 255 THEN 1 ELSE 0

-----------------------------------------------------------------------------
(* Drawing sprites: SpecDraw *)

DrawCycles == 8

DrawRegs == {<<0, 1>>, <<14, 1>>, <<15, 1>>, <<1, 15>>}
DrawAt == {<<5, 3>>, <<62, 30>>}
\* glyph 0; glyph F and what follows the font; V[E] in main.c; display in main.c
SpriteAddrs == {0, FONTSET_NB - 5, V_OFF + 14, DISPLAY_OFF}
SpriteRows == {0, 1, 5, 15}

DRWWord(xy, n) == 53248 + 256 * xy[1] + 16 * xy[2] + n

\* Vx = at[1], Vy = at[2], optionally glyph 0 drawn first (I is 0 at reset),
\* then I = addr and the same Dxyn twice
DrawROM(xy, at, seed, addr, n) ==
    Prog(Halting(<<24576 + 256 * xy[1] + at[1], 24576 + 256 * xy[2] + at[2]>>
                 \o (IF seed THEN <<DRWWord(xy, 5)>> ELSE <<>>)
                 \o <<40960 + addr, DRWWord(xy, n), DRWWord(xy, n)>>))

DrawROMs == {DrawROM(xy, at, seed, addr, n) :
                xy \in DrawRegs, at \in DrawAt, seed \in BOOLEAN,
                addr \in SpriteAddrs, n \in SpriteRows}

InitDraw == InitWith(DrawROMs, DrawCycles)

SpecDraw == InitDraw /\ [][Step]_vars

Pixel(s, row, col) ==
    Bit(display(s, (row * COLS + col) \div 8), 7 - ((row * COLS + col) % 8))

\* The sprite bit Dxyn (word w, fetched in s) has for the pixel (row, col):
\* bit 7 - c of memory[I + r], with r and c the pixel's offsets from (Vx, Vy)
SpriteBit(s, w, row, col) ==
    LET r == (row + 256 - V(s, yOf(w))) % ROWS
        c == (col + 256 - V(s, xOf(w))) % COLS
    IN  IF r < nOf(w) /\ c < 8 THEN Bit(memory(s, I(s) + r, NoUB), 7 - c) ELSE 0

SpriteInRange(s, w) == I(s) + nOf(w) <= MEM_NB

DisplayBytes == 0..(DISPLAY_NB - 1)

SameDisplay(s, t) == \A i \in DisplayBytes : display(s, i) = display(t, i)

\* The last two cycles executed the same Dxyn, the second with I and the
\* sprite bytes as the first found them
SameDrawTwice ==
    /\ SteppedTwice
    /\ Fetched(prev2) /\ Fetched(prev1)
    /\ isDRW(instr(prev2)) /\ instr(prev1) = instr(prev2)
    /\ I(prev1) = I(prev2)
    /\ SpriteInRange(prev2, instr(prev2))
    /\ \A r \in 0..(nOf(instr(prev2)) - 1) :
            memory(prev1, I(prev1) + r, NoUB) = memory(prev2, I(prev2) + r, NoUB)

\* C5: the same Dxyn executed twice in a row, I and the sprite bytes not
\* changed in between, leaves the display as it was before the first draw.
C5_DrawTwiceRestores == SameDrawTwice => SameDisplay(c8, prev2)

\* C6, as stated: when the first of the two draws reported no collision, so
\* does the second.
C6_SecondDrawNoCollision ==
    (SameDrawTwice /\ V(prev1, 15) = 0) => V(c8, 15) = 0

\* C6: when the first of two identical draws in a row reported no collision,
\* the second reports a collision (VF = 1) exactly when the first draw
\* changed the display, and VF = 0 only when it changed nothing.
C6_SecondDrawCollides ==
    (SameDrawTwice /\ V(prev1, 15) = 0)
    => V(c8, 15) = IF SameDisplay(prev1, prev2) THEN 0 ELSE 1

\* C6's case: the first draw lit pixels without a collision, the second erased them
C6_Witness ==
    /\ SameDrawTwice /\ V(prev1, 15) = 0
    /\ ~SameDisplay(prev1, prev2)
    /\ V(c8, 15) = 1

\* C7: Dxyn XORs each sprite bit into the pixel at its offsets from (Vx, Vy),
\* Vx and Vy as the fetch found them, wrapping at the edges; no other pixel
\* changes.
C7_DrawXorsSprite ==
    (Stepped /\ Fetched(prev1) /\ isDRW(instr(prev1))
        /\ SpriteInRange(prev1, instr(prev1)))
    => \A row \in 0..(ROWS - 1), col \in 0..(COLS - 1) :
          Pixel(c8, row, col) =
              (Pixel(prev1, row, col) + SpriteBit(prev1, instr(prev1), row, col)) % 2

PixelsErased(s, t) ==
    \E i \in DisplayBytes : BitAnd(display(s, i), 255 - display(t, i)) # 0

\* C8: after Dxyn, VF is 1 exactly when some pixel that was on before the
\* instruction is off after it, and 0 otherwise.
C8_CollisionFlag ==
    (Stepped /\ Fetched(prev1) /\ isDRW(instr(prev1)))
    => V(c8, 15) = IF PixelsErased(prev1, c8) THEN 1 ELSE 0

\* C8's case: a draw of several rows that both lit and erased pixels
C8_Witness ==
    /\ Stepped /\ Fetched(prev1) /\ isDRW(instr(prev1))
    /\ nOf(instr(prev1)) > 1
    /\ PixelsErased(prev1, c8) /\ PixelsErased(c8, prev1)
    /\ V(c8, 15) = 1

-----------------------------------------------------------------------------
(* Jumps and words outside the instruction set: SpecDecode *)

DecodeCycles == 5

\* 0120, 012E, 0001, 5011, 9012, 8008, 800F, E000, F000, F0FF
UndefinedWords == {288, 302, 1, 20497, 36882, 32776, 32783, 57344, 61440, 61695}

\* V0 = 5, DT = V0, then the word
WordROM(w) == Prog(<<24576 + 5, 61461, w>>)

\* 1FFF; V0 = FF then BFFF; 1FFE
JumpROMs == {Prog(<<8191>>), Prog(<<24576 + 255, 49151>>), Prog(<<8190>>)}

\* V0 = E2, DT = V0, JP 0x060: 0x060 and 0x061 are where main.c has DT and ST
TimerWordROM == Prog(<<24576 + 226, 61461, 4096 + DT_OFF>>)

DecodeROMs == {WordROM(w) : w \in UndefinedWords} \cup JumpROMs \cup {TimerWordROM}

InitDecode == InitWith(DecodeROMs, DecodeCycles)

SpecDecode == InitDecode /\ [][Step]_vars

\* C11: whenever the next instruction is fetched, PC and PC + 1 are both
\* addresses of memory (0..4095).
C11_PCAddressable == PC(c8) + 1 < MEM_NB

\* The words the instruction set does not define
Undefined(w) ==
    LET op == opOf(w)
        kk == kkOf(w)
        n == nOf(w)
    IN  \/ op = 0 /\ w # 224 /\ w # 238
        \/ op \in {5, 9} /\ n # 0
        \/ op = 8 /\ n \in {8, 9, 10, 11, 12, 13, 15}
        \/ op = 14 /\ kk \notin {158, 161}
        \/ op = 15 /\ kk \notin {7, 10, 21, 24, 30, 41, 51, 85, 101}

\* t is s but for the timers (in main.c's layout: but for their two bytes)
SameButTimers(s, t) ==
    IF InUnion(s)
    THEN \A a \in 0..(MEM_NB - 1) : a \notin {DT_OFF, ST_OFF} => Byte(t, a) = Byte(s, a)
    ELSE t = [s EXCEPT !.DT = t.DT, !.ST = t.ST, !.ub = t.ub]

\* C12: a cycle that fetches a word of no defined pattern changes nothing
\* but the timers, which it decrements.
C12_UndefinedWordDoesNothing ==
    (Stepped /\ Fetched(prev1) /\ Undefined(instr(prev1)))
    => /\ SameButTimers(prev1, c8)
       /\ DT(c8) = Dec(DT(prev1))
       /\ ST(c8) = Dec(ST(prev1))

-----------------------------------------------------------------------------
(* Loading, reloading and the draw flag: SpecLoad *)

LoadCycles == 4

\* An image of len bytes: the words 6005 repeated, cut to len
Filled(len) == [i \in 1..len |-> IF i % 2 = 1 THEN 96 ELSE 5]

ProgSpace == MEM_NB - PROG_START

\* V0 = FF stored at 0x088, where main.c has display[0]
StoreROM == Prog(<<24576 + 255, 40960 + DISPLAY_OFF, 61525>>)

\* CLS, then V0 = 0 stored at 0x188, where main.c has draw_flag
FlagROM == Prog(<<224, 40960 + DRAW_OFF, 61525>>)

LoadROMs ==
    {Filled(len) : len \in {0, 2, ProgSpace, ProgSpace + 1, ProgSpace + 2}}
    \cup {StoreROM, FlagROM, Prog(<<40960, 53253, 224>>), Prog(<<224, 53248, 24576>>)}

InitLoad == InitWith(LoadROMs, LoadCycles)

NextLoad == Step \/ Reload \/ Present

SpecLoad == InitLoad /\ [][NextLoad]_vars

\* No cycle has run since the last load
JustLoaded == prev1 = NoState

\* The load reported that the image does not fit: no machine to run
OutOfSpace(s) == s.impl = "none"

\* C13: a load of an image longer than 3584 bytes fails with OutOfSpace and
\* writes no byte at or beyond address 4096.
C13_OversizedLoadFails ==
    (JustLoaded /\ Len(image) > ProgSpace)
    => (OutOfSpace(c8) /\ "memory" \notin c8.ub)

\* C14: right after the load of an image of at most 3584 bytes, memory is the
\* glyph set, then zeros, then the image at 0x200, then zeros; V, I, DT, ST,
\* SP, the stack and the display are 0, no key is pressed and PC = 0x200.
C14_StateAfterLoad ==
    (JustLoaded /\ Len(image) <= ProgSpace)
    => /\ \A a \in 0..(MEM_NB - 1) :
            memory(c8, a, NoUB) =
                IF a < FONTSET_NB THEN FONTSET[a + 1]
                ELSE IF a >= PROG_START /\ a < PROG_START + Len(image)
                     THEN image[a - PROG_START + 1]
                     ELSE 0
       /\ \A i \in 0..(NREGS - 1) : V(c8, i) = 0
       /\ I(c8) = 0 /\ DT(c8) = 0 /\ ST(c8) = 0 /\ SP(c8) = 0
       /\ \A i \in 0..(NSTACK - 1) : stack(c8, i, NoUB) = 0
       /\ \A i \in DisplayBytes : display(c8, i) = 0
       /\ NoKeyPressed(c8)
       /\ PC(c8) = PROG_START

DisplayChanged == \E i \in DisplayBytes : display(c8', i) # display(c8, i)

\* C15: whatever the operation (a cycle, a reload), if a display bit differs
\* after it, the draw flag is set after it.
C15_DisplayChangeSetsFlag == [][DisplayChanged => draw(c8')]_vars

\* This transition is a cycle
CycleTaken == fuel' # fuel

\* C16: a cycle never clears the draw flag: one that executes 00E0 or Dxyn
\* leaves it set, and one that finds it set leaves it set.
C16_CycleKeepsFlag ==
    [][(CycleTaken /\ Fetched(c8))
        => /\ (instr(c8) = 224 \/ isDRW(instr(c8))) => draw(c8')
           /\ draw(c8) => draw(c8')]_vars

\* C17: 00E0 turns every pixel off, sets the draw flag, adds 2 to PC and
\* changes no V register, I, SP, stack slot or memory byte.
C17_ClearScreen ==
    [][(CycleTaken /\ Fetched(c8) /\ instr(c8) = 224)
        => /\ \A i \in DisplayBytes : display(c8', i) = 0
           /\ draw(c8')
           /\ PC(c8') = PC(c8) + 2
           /\ \A i \in 0..(NREGS - 1) : V(c8', i) = V(c8, i)
           /\ I(c8') = I(c8) /\ SP(c8') = SP(c8)
           /\ \A i \in 0..(NSTACK - 1) : stack(c8', i, NoUB) = stack(c8, i, NoUB)
           /\ \A a \in 0..(MEM_NB - 1) : memory(c8', a, NoUB) = memory(c8, a, NoUB)]_vars

-----------------------------------------------------------------------------
(* Loads and adds of immediates: SpecReg *)

RegCycles == 4

LDWords == {24576 + 5, 24576 + 10, 24576 + 256 + 255, 24576 + 256 * 15 + 9}

\* Every straight-line program of at most 3 of the loads
LDROMs ==
    {Prog(ws) : ws \in {<<>>} \cup [1..1 -> LDWords] \cup [1..2 -> LDWords]
                       \cup [1..3 -> LDWords]}

\* VF = 9, Vx = kk, then ADD Vx, kk
LDAddROM(x, kk) ==
    Prog(<<24576 + 256 * 15 + 9, 24576 + 256 * x + kk, 28672 + 256 * x + kk>>)

LDAddROMs == {LDAddROM(x, kk) : x \in {0, 7, 15}, kk \in {0, 1, 128, 200, 255}}

InitReg == InitWith(LDROMs \cup LDAddROMs, RegCycles)

SpecReg == InitReg /\ [][Step]_vars

\* C18: 6xkk and then 7xkk on the same register leave Vx = (kk + kk) mod 256,
\* and VF (when x is not F) as it was: 7xkk keeps no carry.
C18_LoadThenAdd ==
    (/\ SteppedTwice /\ Fetched(prev2) /\ Fetched(prev1)
     /\ opOf(instr(prev2)) = 6 /\ opOf(instr(prev1)) = 7
     /\ xOf(instr(prev1)) = xOf(instr(prev2))
     /\ kkOf(instr(prev1)) = kkOf(instr(prev2)))
    => LET x == xOf(instr(prev1))
           kk == kkOf(instr(prev1))
       IN  /\ V(c8, x) = (kk + kk) % 256
           /\ x # 15 => V(c8, 15) = V(prev2, 15)

\* C18's case: 200 + 200 wrapped to 144 in V0 or V7, VF still 9
C18_Witness ==
    /\ SteppedTwice /\ Fetched(prev2) /\ Fetched(prev1)
    /\ opOf(instr(prev2)) = 6 /\ opOf(instr(prev1)) = 7
    /\ xOf(instr(prev1)) = xOf(instr(prev2)) /\ xOf(instr(prev1)) # 15
    /\ kkOf(instr(prev1)) = 200 /\ kkOf(instr(prev2)) = 200
    /\ V(c8, xOf(instr(prev1))) = 144
    /\ V(c8, 15) = 9

\* The cycles run since the load, and the i-th word of the image
CyclesRun == RegCycles - fuel
ImageWord(i) == 256 * image[2 * i - 1] + image[2 * i]

\* The image starts with k words 6xkk
StartsWithLoads(k) ==
    /\ 2 * k <= Len(image)
    /\ \A i \in 1..k : opOf(ImageWord(i)) = 6

\* What the first k words leave in register r: the kk of the last that names r
LastLoad(k, r) ==
    LET hits == {i \in 1..k : xOf(ImageWord(i)) = r}
    IN  IF hits = {} THEN 0
        ELSE kkOf(ImageWord(CHOOSE i \in hits : \A j \in hits : j <= i))

\* C19: after k cycles over a program that starts with k instructions 6xkk,
\* PC = 0x200 + 2k and every register holds the kk of the last 6xkk that
\* named it, 0 if none did.
C19_StraightLineLoads ==
    StartsWithLoads(CyclesRun)
    => /\ PC(c8) = PROG_START + 2 * CyclesRun
       /\ \A r \in 0..(NREGS - 1) : V(c8, r) = LastLoad(CyclesRun, r)

\* C19's case: 6005 then 600A (and a third load) run: V0 = 10
C19_Witness ==
    /\ CyclesRun = 3 /\ StartsWithLoads(3)
    /\ ImageWord(1) = 24576 + 5 /\ ImageWord(2) = 24576 + 10
    /\ xOf(ImageWord(3)) # 0
    /\ V(c8, 0) = 10
    /\ PC(c8) = PROG_START + 6

isSUB(w) == opOf(w) = 8 /\ nOf(w) = 5
isSUBN(w) == opOf(w) = 8 /\ nOf(w) = 7

\* C20: for x in 0..E and any y, 8xy5 leaves Vx = (a - b) mod 256 and VF = 1
\* iff a > b; 8xy7 leaves Vx = (b - a) mod 256 and VF = 1 iff b > a; a and b
\* are Vx and Vy before the instruction.
C20_Subtract ==
    (Stepped /\ Fetched(prev1) /\ xOf(instr(prev1)) # 15
        /\ (isSUB(instr(prev1)) \/ isSUBN(instr(prev1))))
    => LET w == instr(prev1)
           a == IF isSUB(w) THEN V(prev1, xOf(w)) ELSE V(prev1, yOf(w))
           b == IF isSUB(w) THEN V(prev1, yOf(w)) ELSE V(prev1, xOf(w))
       IN  /\ V(c8, xOf(w)) = (a - b + 256) % 256
           /\ V(c8, 15) = IF a > b THEN 1 ELSE 0

-----------------------------------------------------------------------------
(* The index register and the memory instructions: SpecMem *)

MemCycles == 5

\* Vx = v, I = nnn, then ADD I, Vx
AddIROM(x, v, nnn) ==
    Prog(<<24576 + 256 * x + v, 40960 + nnn, 61470 + 256 * x>>)

AddIROMs == {AddIROM(x, v, nnn) : x \in {0, 15}, v \in {0, 5, 255},
                                  nnn \in {0, 3840, 4095}}

\* Vx = v, I = nnn, then LD B, Vx
BcdROM(x, v, nnn) ==
    Prog(<<24576 + 256 * x + v, 40960 + nnn, 61491 + 256 * x>>)

\* I: in the program area, the last three bytes of memory, V0 in main.c
BcdROMs == {BcdROM(x, v, nnn) : x \in {0, 3}, v \in {0, 7, 123, 255},
                                nnn \in {768, MEM_NB - 3, V_OFF}}

\* V0 = 0x11, V1 = 0x22, V2 = 0x33, I = nnn, then the word Fx55 or Fx65
CopyROM(x, nnn, kk) ==
    Prog(<<24576 + 17, 24576 + 256 + 34, 24576 + 512 + 51, 40960 + nnn,
           61440 + 256 * x + kk>>)

\* I: in the program area, the glyphs, V1 in main.c, the last 16 bytes
CopyROMs == {CopyROM(x, nnn, kk) : x \in {0, 1, 15},
                                   nnn \in {768, 0, V_OFF + 1, MEM_NB - NREGS},
                                   kk \in {85, 101}}

MemROMs == AddIROMs \cup BcdROMs \cup CopyROMs

\* I = 0x060, V0 = FF, LD [I], V0: 0x060 is where main.c has DT
TimerStoreROM == Prog(<<40960 + DT_OFF, 24576 + 255, 61525>>)

\* I = 0xFFF, the last byte of memory, then an access through I:
\* F033, D012, F155, F165
EdgeROM(word) == Prog(<<40960 + MEM_NB - 1, word>>)

EdgeROMs == {EdgeROM(word) : word \in {61491, 53266, 61781, 61797}}

InitMem == InitWith(MemROMs \cup {TimerStoreROM} \cup EdgeROMs, MemCycles)

SpecMem == InitMem /\ [][Step]_vars

isADDI(w) == opOf(w) = 15 /\ kkOf(w) = 30

\* C21: Fx1E leaves I = (I + v) mod 65536 with v the value Vx had before the
\* instruction, for every x (F included), and VF = 1 iff I + v > 0xFFF.
C21_AddToIndex ==
    (Stepped /\ Fetched(prev1) /\ isADDI(instr(prev1)))
    => LET v == V(prev1, xOf(instr(prev1)))
       IN  /\ I(c8) = (I(prev1) + v) % 65536
           /\ V(c8, 15) = IF I(prev1) + v > 4095 THEN 1 ELSE 0

isLDB(w) == opOf(w) = 15 /\ kkOf(w) = 51
isLDM(w) == opOf(w) = 15 /\ kkOf(w) = 85
isLDVM(w) == opOf(w) = 15 /\ kkOf(w) = 101

AllMemory == 0..(MEM_NB - 1)

\* C22: with I <= 4093, Fx33 leaves three digits 0..9 at I, I+1, I+2 that
\* read as the decimal value of Vx, and changes neither I nor a V register
\* nor any other byte of memory.
C22_StoreBCD ==
    (Stepped /\ Fetched(prev1) /\ isLDB(instr(prev1)) /\ I(prev1) <= MEM_NB - 3)
    => LET a == I(prev1)
           v == V(prev1, xOf(instr(prev1)))
       IN  /\ \A k \in 0..2 : memory(c8, a + k, NoUB) \in 0..9
           /\ 100 * memory(c8, a, NoUB) + 10 * memory(c8, a + 1, NoUB)
                 + memory(c8, a + 2, NoUB) = v
           /\ I(c8) = a
           /\ \A i \in 0..(NREGS - 1) : V(c8, i) = V(prev1, i)
           /\ \A b \in AllMemory \ (a..(a + 2)) :
                 memory(c8, b, NoUB) = memory(prev1, b, NoUB)

\* C23: Fx55 leaves V0..Vx at memory[I..I+x], Fx65 leaves memory[I..I+x] in
\* V0..Vx; each adds x + 1 to I and leaves the registers above x unchanged
\* (I + x within memory).
C23_StoreAndLoadRegisters ==
    (Stepped /\ Fetched(prev1) /\ (isLDM(instr(prev1)) \/ isLDVM(instr(prev1)))
        /\ I(prev1) + xOf(instr(prev1)) < MEM_NB)
    => LET a == I(prev1)
           x == xOf(instr(prev1))
       IN  /\ I(c8) = a + x + 1
           /\ \A i \in (x + 1)..(NREGS - 1) : V(c8, i) = V(prev1, i)
           /\ isLDM(instr(prev1))
              => \A i \in 0..x : memory(c8, a + i, NoUB) = V(prev1, i)
           /\ isLDVM(instr(prev1))
              => \A i \in 0..x : V(c8, i) = memory(prev1, a + i, NoUB)

-----------------------------------------------------------------------------
(* Conditional skips: SpecSkip *)

SkipCycles == 5

SkipBytes == {7, 9}

\* V0 = v, V1 = w, DT = V0, then the skip
SkipROM(v, w, word) ==
    Prog(<<24576 + v, 24576 + 256 + w, 61461, word>>)

\* 30kk, 40kk, 5010, 9010, 5000, 9000
SkipWords == {12288 + kk : kk \in SkipBytes} \cup {16384 + kk : kk \in SkipBytes}
             \cup {20496, 36880, 20480, 36864}

SkipROMs == {SkipROM(v, w, word) : v \in SkipBytes, w \in SkipBytes,
                                   word \in SkipWords}

\* V0 = v, then SKP V0 (E09E) or SKNP V0 (E0A1)
KeySkipROM(v, kk) == Prog(<<24576 + v, 57344 + kk>>)

KeySkipROMs == {KeySkipROM(v, kk) : v \in {3, 15, 16, 200}, kk \in {158, 161}}

InitSkip == InitWith(SkipROMs \cup KeySkipROMs, SkipCycles)

SpecSkip == InitSkip /\ [][Step]_vars

isSkip(w) ==
    \/ opOf(w) \in {3, 4}
    \/ opOf(w) \in {5, 9} /\ nOf(w) = 0

\* The condition of the skip w in the machine s
SkipCondition(s, w) ==
    CASE opOf(w) = 3 -> V(s, xOf(w)) = kkOf(w)
      [] opOf(w) = 4 -> V(s, xOf(w)) # kkOf(w)
      [] opOf(w) = 5 -> V(s, xOf(w)) = V(s, yOf(w))
      [] opOf(w) = 9 -> V(s, xOf(w)) # V(s, yOf(w))

\* t is s but for PC and the timers (in main.c's layout: but for their bytes)
SameButPCAndTimers(s, t) ==
    IF InUnion(s)
    THEN \A a \in 0..(MEM_NB - 1) :
            a \notin {PC_OFF, PC_OFF + 1, DT_OFF, ST_OFF} => Byte(t, a) = Byte(s, a)
    ELSE t = [s EXCEPT !.PC = t.PC, !.DT = t.DT, !.ST = t.ST, !.ub = t.ub]

Skips(s, t) == PC(t) = PC(s) + 4

\* C24: 3xkk, 4xkk, 5xy0 and 9xy0 add 4 to PC when their condition holds and
\* 2 otherwise and change nothing else but the timers; in every state
\* exactly one of 3xkk and 4xkk skips, and exactly one of 5xy0 and 9xy0.
C24_ConditionalSkips ==
    /\ (Stepped /\ Fetched(prev1) /\ isSkip(instr(prev1)))
       => /\ PC(c8) = PC(prev1) + (IF SkipCondition(prev1, instr(prev1)) THEN 4 ELSE 2)
          /\ SameButPCAndTimers(prev1, c8)
    /\ \A x \in {0, 1}, kk \in SkipBytes :
          Skips(c8, SE(c8, x, kk)) # Skips(c8, SNE(c8, x, kk))
    /\ \A x \in {0, 1}, y \in {0, 1} :
          Skips(c8, SEV(c8, x, y)) # Skips(c8, SNEV(c8, x, y))

\* C24's case: a 4xkk that skipped while the delay timer was running
C24_Witness ==
    /\ Stepped /\ Fetched(prev1) /\ opOf(instr(prev1)) = 4
    /\ V(prev1, 0) # kkOf(instr(prev1))
    /\ DT(prev1) > 0 /\ DT(c8) = DT(prev1) - 1
    /\ PC(c8) = PC(prev1) + 4

isKeySkip(w) == opOf(w) = 14 /\ kkOf(w) \in {158, 161}

\* C25: Ex9E and ExA1 read the key flag at index Vx, an index within 0..15,
\* and add 4 to PC iff that key is pressed (Ex9E) or not pressed (ExA1),
\* otherwise 2.
C25_KeySkips ==
    (Stepped /\ Fetched(prev1) /\ isKeySkip(instr(prev1)))
    => LET w == instr(prev1)
           k == V(prev1, xOf(w))
       IN  /\ k \in 0..(NKEYS - 1)
           /\ PC(c8) = PC(prev1)
                + (IF (kkOf(w) = 158) = keys(prev1, k, NoUB) THEN 4 ELSE 2)

isLDDT(w) == opOf(w) = 15 /\ kkOf(w) = 21

isLDST(w) == opOf(w) = 15 /\ kkOf(w) = 24

isLDVDT(w) == opOf(w) = 15 /\ kkOf(w) = 7

\* C26: when the step that executes Fx15 returns, DT equals Vx; when the
\* step that executes Fx18 returns, ST equals Vx; an Fy07 executed as the
\* very next instruction after Fx15 reads back the value Fx15 wrote.
C26_TimerLoads ==
    /\ (Stepped /\ Fetched(prev1) /\ isLDDT(instr(prev1)))
       => DT(c8) = V(prev1, xOf(instr(prev1)))
    /\ (Stepped /\ Fetched(prev1) /\ isLDST(instr(prev1)))
       => ST(c8) = V(prev1, xOf(instr(prev1)))
    /\ (SteppedTwice /\ Fetched(prev2) /\ isLDDT(instr(prev2))
          /\ Fetched(prev1) /\ isLDVDT(instr(prev1)))
       => V(c8, xOf(instr(prev1))) = V(prev2, xOf(instr(prev2)))

-----------------------------------------------------------------------------
(* Nested calls followed by as many returns: SpecNest *)

\* The address of the i-th call of a nest
NestCall(i) == PROG_START + 4 * (i - 1)

\* k nested calls, each followed in memory by a 00EE:
\*   NestCall(i)      (i < k):  CALL NestCall(i + 1)
\*   NestCall(i) + 2:           00EE
\*   NestCall(k):               CALL NestCall(k) + 2
NestROM(k) ==
    Prog([i \in 1..(2 * k) |->
            IF i % 2 = 0 THEN 238
            ELSE IF i = 2 * k - 1 THEN 8192 + NestCall(k) + 2
            ELSE 8192 + NestCall((i + 1) \div 2 + 1)])

\* CALL 0x204, then I = address 0x068, V0 = 0xAA, LD [I], V0
StackStoreROM == Prog(<<8192 + 516, 0, 40960 + 104, 24576 + 170, 61525>>)

NestROMs == {NestROM(k) : k \in 1..MaxDepth} \cup {StackStoreROM}

NestCycles == 2 * MaxDepth

InitNest == InitWith(NestROMs, NestCycles)

SpecNest == InitNest /\ [][Step]_vars

NestCyclesRun == NestCycles - fuel

\* C27: from SP = 0, k <= 16 nested calls made from a1..ak followed by k
\* returns resume at ak + 2, ..., a1 + 2 in that order and SP ends at 0; no
\* instruction other than 2nnn changes a stack slot below SP.
C27_NestedCalls ==
    /\ \A k \in 1..NSTACK : \A j \in 1..k :
         (image = NestROM(k) /\ NestCyclesRun = k + j)
         => (PC(c8) = NestCall(k - j + 1) + 2 /\ SP(c8) = k - j)
    /\ (Stepped /\ Fetched(prev1) /\ ~isCALL(instr(prev1)))
       => \A i \in 0..(NSTACK - 1) :
            i < SP(prev1) => stack(c8, i, NoUB) = stack(prev1, i, NoUB)

-----------------------------------------------------------------------------
(* The emulation loop of main(): SpecHost *)

HostCycles == 3

\* CLS, I = 0 (the glyph "0"), DRW V0, V0, 5, then a jump to itself
HostDrawROM == Prog(Halting(<<224, 40960, 53253>>))

\* I = 0x189, V0 = 1, LD [I], V0: 0x189 is where main.c has keys[0]
KeyStoreROM == Prog(<<40960 + KEYS_OFF, 24576 + 1, 61525>>)

HostROMs == {HostDrawROM, KeyStoreROM}

InitHost == InitWith(HostROMs, HostCycles)

NextHost ==
    \/ HostCycle
    \/ HostKeyDown
    \/ HostKeyUp
    \/ HostReload
    \/ HostPolled
    \/ HostDraw

SpecHost == InitHost /\ [][NextHost]_vars

\* A cycle has returned since the program started
HostStepped == fuel < HostCycles

KeyState(s) == [i \in 0..(NKEYS - 1) |-> keys(s, i, NoUB)]

\* C28: in the host loop, between a step that left the draw flag set and the
\* next step there is exactly one presentation, which reads the display and
\* clears the flag; after a step that left the flag clear there is none; and
\* no key state changes during a step.
C28_HostLoop ==
    [][/\ (CycleTaken /\ HostStepped) => shown = (IF dirtied THEN 1 ELSE 0)
       /\ (shown' # shown /\ ~CycleTaken)
          => /\ draw(c8)
             /\ ~draw(c8')
             /\ pixels' = [i \in 0..(DISPLAY_NB - 1) |-> display(c8, i)]
       /\ CycleTaken => KeyState(c8') = KeyState(c8)]_vars

-----------------------------------------------------------------------------
(* Words no branch of the dispatch takes, under SpecDecode *)

\* The words for which the cycle executes no branch
NoBranch(w) ==
    LET op == opOf(w)
        kk == kkOf(w)
        n == nOf(w)
    IN  \/ op = 0 /\ n \notin {0, 14}
        \/ op = 8 /\ n \in {8, 9, 10, 11, 12, 13, 15}
        \/ op = 14 /\ kk \notin {158, 161}
        \/ op = 15 /\ kk \notin {7, 10, 21, 24, 30, 41, 51, 85, 101}

AtNoBranch(s) == Fetched(s) /\ NoBranch(instr(s))

\* C29: once PC points at a word for which the cycle executes no branch, the
\* machine never leaves it: the next step, and the one after it, find PC, V,
\* I, SP, stack, memory and display as they were, and only the timers count
\* down.
C29_StuckAtNoBranch ==
    /\ (Stepped /\ AtNoBranch(prev1))
       => /\ SameButTimers(prev1, c8)
          /\ DT(c8) = Dec(DT(prev1))
          /\ ST(c8) = Dec(ST(prev1))
    /\ (SteppedTwice /\ AtNoBranch(prev2))
       => /\ SameButTimers(prev2, c8)
          /\ DT(c8) = Dec(Dec(DT(prev2)))
          /\ ST(c8) = Dec(Dec(ST(prev2)))

-----------------------------------------------------------------------------
(* The end of a wait for a key, under SpecKeys *)

\* C30: a step at Fx0A ends the wait (PC advances by 2) exactly when some key
\* is held pressed at the moment of that step, whatever was pressed and
\* released since the step before; a step that finds no key pressed leaves
\* the machine at the same Fx0A.
C30_WaitEndsWithKey ==
    (Stepped /\ Fetched(prev1) /\ isLDK(instr(prev1)))
    => /\ (PC(c8) = PC(prev1) + 2) = (~NoKeyPressed(prev1))
       /\ NoKeyPressed(prev1)
          => /\ PC(c8) = PC(prev1)
             /\ Fetched(c8)
             /\ instr(c8) = instr(prev1)

\* C30's case: a step has waited with no key pressed, and the next step, with
\* key 15 held, has ended the wait
C30_Witness ==
    /\ SteppedTwice
    /\ Waited(prev2)
    /\ Fetched(prev1) /\ isLDK(instr(prev1))
    /\ keys(prev1, 15, NoUB) /\ ~keys(prev1, 3, NoUB)
    /\ PC(prev1) = PC(prev2)
    /\ PC(c8) = PC(prev1) + 2

-----------------------------------------------------------------------------
(* The timers between loads, under SpecMem *)

\* C31: DT does not increase across a step that does not execute Fx15, and
\* ST does not increase across a step that does not execute Fx18 (so that,
\* left alone, a timer only counts down to 0 and stays there).
C31_TimersCountDown ==
    (Stepped /\ Fetched(prev1))
    => /\ ~isLDDT(instr(prev1)) => DT(c8) <= DT(prev1)
       /\ ~isLDST(instr(prev1)) => ST(c8) <= ST(prev1)

-----------------------------------------------------------------------------
(* Accesses through I, under SpecMem *)

\* The display byte Dxyn touches for row r and column c of its sprite, with
\* VF already cleared
DrawnByte(s, w, r, c) ==
    LET s1 == setV(s, 15, 0)
        pxRow == (V(s1, yOf(w)) + r) % ROWS
        pxCol == (V(s1, xOf(w)) + c) % COLS
    IN  (pxRow * COLS + pxCol) \div 8

\* C32: every access a step makes through I is inside memory: Dxyn reads
\* I..I+n-1, Fx33 writes I..I+2, Fx55 and Fx65 copy I..I+x, all within
\* 0..4095; and every display byte index Dxyn computes is within 0..255.
C32_AccessesInMemory ==
    (Stepped /\ Fetched(prev1))
    => LET w == instr(prev1)
       IN  /\ (isDRW(w) /\ nOf(w) > 0) => I(prev1) + nOf(w) - 1 < MEM_NB
           /\ isDRW(w)
              => \A r \in 0..(nOf(w) - 1), c \in 0..7 :
                    DrawnByte(prev1, w, r, c) \in 0..(DISPLAY_NB - 1)
           /\ isLDB(w) => I(prev1) + 2 < MEM_NB
           /\ (isLDM(w) \/ isLDVM(w)) => I(prev1) + xOf(w) < MEM_NB

====
